---- MODULE Spec2Model ----
(***************************************************************************)
(* Model of the audio sensor monitor (final.py): one capture thread per    *)
(* input device (log_sound), the periodic aggregation timer chain          *)
(* (periodic_tasks) and the main thread (startup loop, GUI loop, cleanup). *)
(* The earlier program audiosensors.py (capture threads, the trimming      *)
(* mainThread, quit by key or window close) is modelled on the same        *)
(* globals, with its own actions and its own specification.                *)
(*                                                                         *)
(* Python list indices are 0-based; a Python index k is element k + 1 of   *)
(* the corresponding TLA+ sequence.  A loudness value is modelled as an    *)
(* integer; a mean is kept as the pair (sum, n) and compared with the      *)
(* threshold as sum < threshold * n.                                       *)
(***************************************************************************)
EXTENDS Integers, Sequences, FiniteSets, TLC

(* ---------------- program constants ---------------- *)

\* final.py:98-99  the literal 100 of the trim
Capacity == 100

\* final.py:15
FAULT_THRESHOLD == 10

\* audiosensors.py:104
buffer_width == 10

(* ---------------- bounds of the model ---------------- *)

\* largest number of devices the host API reports
MaxDevices == 2

\* frames a device delivers before its reads block for good (Spec)
MaxFrames == 1

\* frames beyond Capacity a device delivers in SpecBuf
ExtraFrames == 2

\* longest enumerated buffer of SpecAgg
MaxSamples == 2

\* longest enumerated frame of SpecRms, in samples
MaxFrameLen == 2

\* the audio of Spec: every frame of an even-numbered device is loud, every
\* frame of an odd-numbered device is quiet (below FAULT_THRESHOLD)
Loudness(idx) == IF idx % 2 = 0 THEN 50 ELSE 2

VARIABLES
    devs,         \* discovery result: devs[k+1] <=> device k has maxInputChannels > 0
    frames_left,  \* frames_left[k+1]: frames device k still delivers (environment)
    main_pc,      \* position of the main thread
    i,            \* loop variable of the startup loop (device index)
    join_k,       \* position of the cleanup loop in threads (1-based)
    labels,       \* global labels: the device index each label was made for
    buffer,       \* global buffer: list of per-device lists
    threads,      \* global threads: one record per Thread object
    quit_flag,    \* global quit_flag
    agg_pc,       \* position of the running periodic_tasks call / pending Timer
    agg_any,      \* result of the test on line 42
    combined,     \* what calculate_combined_stats printed last
    det_i,        \* enumerate index of detect_faulty_sources
    det_b,        \* the list object b of detect_faulty_sources
    det_mean,     \* mean evaluated on line 66 for the device under test
    faulty,       \* devices reported "might be faulty" in this cycle, with the mean printed
    nodata,       \* devices reported "has no data" in this cycle
    pushed,       \* history: pushed[k+1] is every value appended to buffer[k], in order
    quit_mark,    \* history: Len(pushed[k+1]) at the moment exit_method ran
    signal,       \* log_sound: the int16 samples of the frame read
    squares,      \* log_sound: signal ** 2, an int16 array
    meansq,       \* log_sound: np.mean(signal ** 2) as the pair (sum, n)
    volume,       \* log_sound: np.sqrt of that mean
    rms_pc,       \* position inside the loudness expression of line 90
    key,          \* audiosensors.py: keyboard.is_pressed('q')
    mt_pc,        \* audiosensors.py: position of mainThread
    mt_i,         \* audiosensors.py: loop variable of the trim loop of mainThread
    mt_new,       \* audiosensors.py: the slice built on line 119, not yet stored
    stale         \* audiosensors.py: workers holding a list that buffer no longer holds

vars == <<devs, frames_left, main_pc, i, join_k, labels, buffer, threads,
          quit_flag, agg_pc, agg_any, combined, det_i, det_b, det_mean,
          faulty, nodata, pushed, quit_mark, signal, squares, meansq, volume,
          rms_pc, key, mt_pc, mt_i, mt_new, stale>>

mainVars == <<main_pc, i, join_k, labels>>
aggVars  == <<agg_pc, agg_any, combined, det_i, det_b, det_mean, faulty, nodata>>
rmsVars  == <<signal, squares, meansq, volume, rms_pc>>
asVars   == <<key, mt_pc, mt_i, mt_new, stale>>

(* ---------------- helpers ---------------- *)

RECURSIVE Sum(_)
\* np.mean / np.concatenate work on the sum of the samples
Sum(s) == IF s = <<>> THEN 0 ELSE Head(s) + Sum(Tail(s))

RECURSIVE Concat(_)
\* np.concatenate of a list of lists
Concat(ss) == IF ss = <<>> THEN <<>> ELSE Head(ss) \o Concat(Tail(ss))

\* [x for x in ss if len(x) > 0]
NonEmpty(ss) == SelectSeq(ss, LAMBDA x : Len(x) > 0)

\* mutant of LastN: the slice keeps the first element and skips the next ones
LastN_Gap(s, n) ==
    IF Len(s) <= n THEN s ELSE <<s[1]>> \o SubSeq(s, Len(s) - n + 2, Len(s))

\* Python slice s[-n:]
LastN(s, n) == IF Len(s) <= n THEN s ELSE SubSeq(s, Len(s) - n + 1, Len(s))

\* np.mean(b) as the pair (sum, n)
Mean(b) == [sum |-> Sum(b), n |-> Len(b)]

\* mutant of BelowThreshold: a mean equal to the threshold counts as low
BelowThreshold_Inclusive(m) == m.sum <= FAULT_THRESHOLD * m.n

\* np.mean(b) < FAULT_THRESHOLD, for len(b) > 0
BelowThreshold(m) == m.sum < FAULT_THRESHOLD * m.n

NoStats == [sum |-> 0, n |-> 0]

numdevices == Len(devs)

\* the Thread object created on line 171 for device index idx
NewThread(idx) == [index |-> idx, pc |-> "created", stream |-> "none", err |-> FALSE]

\* all lists of at most n booleans
BoolSeqs(n) == UNION {[1..k -> BOOLEAN] : k \in 0..n}

(* ---------------- initial states ---------------- *)

\* the loudness expression is not under evaluation
RmsIdle ==
    /\ signal = <<>>
    /\ squares = <<>>
    /\ meansq = [sum |-> 0, n |-> 0]
    /\ volume = [nan |-> FALSE, root |-> 0]
    /\ rms_pc = "idle"

\* audiosensors.py before mainThread is started, no key pressed
AsIdle ==
    /\ key = FALSE
    /\ mt_pc = "idle"
    /\ mt_i = 0
    /\ mt_new = <<>>
    /\ stale = {}

InitGlobals ==
    /\ RmsIdle
    /\ AsIdle
    /\ quit_mark = <<>>
    /\ main_pc = "loop"
    /\ i = 0
    /\ join_k = 0
    /\ labels = <<>>
    /\ buffer = <<>>
    /\ threads = <<>>
    /\ quit_flag = FALSE
    /\ agg_pc = "idle"
    /\ agg_any = FALSE
    /\ combined = NoStats
    /\ det_i = 0
    /\ det_b = [live |-> FALSE, val |-> <<>>]
    /\ det_mean = NoStats
    /\ faulty = {}
    /\ nodata = {}
    /\ pushed = <<>>

Init ==
    /\ devs \in BoolSeqs(MaxDevices)
    /\ frames_left = [k \in 1..Len(devs) |-> MaxFrames]
    /\ InitGlobals

(* ---------------- main thread ---------------- *)

\* final.py:157-172, one iteration of the startup loop
StartupIter ==
    /\ main_pc = "loop"
    /\ i < numdevices
    /\ IF devs[i + 1]
       THEN /\ labels' = Append(labels, i)
            /\ buffer' = Append(buffer, <<>>)
            /\ pushed' = Append(pushed, <<>>)
            /\ IF i < Len(labels')
               THEN \* labels[i] exists: the thread is created, then threads[i] is started
                    LET th == Append(threads, NewThread(i)) IN
                    IF i < Len(th) /\ th[i + 1].pc = "created"
                    THEN /\ threads' = [th EXCEPT ![i + 1].pc = "open"]
                         /\ main_pc' = main_pc
                    ELSE /\ threads' = th
                         /\ main_pc' = "crashed"
               ELSE \* labels[i] raises IndexError: the module stops here
                    /\ threads' = threads
                    /\ main_pc' = "crashed"
       ELSE UNCHANGED <<labels, buffer, pushed, threads, main_pc>>
    /\ i' = IF main_pc' = "crashed" THEN i ELSE i + 1
    /\ UNCHANGED <<devs, frames_left, join_k, quit_flag>>
    /\ UNCHANGED aggVars
    /\ UNCHANGED quit_mark
    /\ UNCHANGED rmsVars
    /\ UNCHANGED asVars

\* final.py:181, the first call of periodic_tasks, made by the main thread
PeriodicFirst ==
    /\ main_pc = "loop"
    /\ i = numdevices
    /\ main_pc' = "periodic"
    /\ agg_pc' = "combined"
    /\ UNCHANGED <<devs, frames_left, i, join_k, labels, buffer, threads,
                   quit_flag, agg_any, combined, det_i, det_b, det_mean,
                   faulty, nodata, pushed>>
    /\ UNCHANGED quit_mark
    /\ UNCHANGED rmsVars
    /\ UNCHANGED asVars

\* mutant of QuitFlagAfterExit: the handler flips the flag
QuitFlagAfterExit_Toggle(q) == ~q

\* final.py:118 (audiosensors.py:94), quit_flag = True: the value of the flag
\* after the handler ran with the flag at q
QuitFlagAfterExit(q) == TRUE

\* final.py:113-118 and 185: the GUI loop ends, aboutToQuit calls exit_method
exit_method ==
    /\ main_pc = "exec"
    /\ quit_flag' = QuitFlagAfterExit(quit_flag)
    /\ main_pc' = "join"
    /\ join_k' = 1
    /\ UNCHANGED <<devs, frames_left, i, labels, buffer, threads, pushed>>
    /\ UNCHANGED aggVars
    /\ quit_mark' = [k \in 1..Len(pushed) |-> Len(pushed[k])]
    /\ UNCHANGED rmsVars
    /\ UNCHANGED asVars

\* final.py:188-189, t.join() of one thread: returns once the thread has ended
Join ==
    /\ main_pc = "join"
    /\ IF join_k > Len(threads)
       THEN /\ main_pc' = "terminate"
            /\ join_k' = join_k
       ELSE /\ threads[join_k].pc = "stopped"
            /\ join_k' = join_k + 1
            /\ main_pc' = main_pc
    /\ UNCHANGED <<devs, frames_left, i, labels, buffer, threads, quit_flag, pushed>>
    /\ UNCHANGED aggVars
    /\ UNCHANGED quit_mark
    /\ UNCHANGED rmsVars
    /\ UNCHANGED asVars

\* final.py:190
Terminate ==
    /\ main_pc = "terminate"
    /\ main_pc' = "done"
    /\ UNCHANGED <<devs, frames_left, i, join_k, labels, buffer, threads,
                   quit_flag, pushed>>
    /\ UNCHANGED aggVars
    /\ UNCHANGED quit_mark
    /\ UNCHANGED rmsVars
    /\ UNCHANGED asVars

(* ---------------- capture worker: log_sound ---------------- *)

Workers == 1..Len(threads)

\* final.py:76-84, p.open succeeds
OpenOk(t) ==
    /\ threads[t].pc = "open"
    /\ threads' = [threads EXCEPT ![t].pc = "read", ![t].stream = "open"]
    /\ UNCHANGED <<devs, frames_left, buffer, quit_flag, pushed>>
    /\ UNCHANGED mainVars
    /\ UNCHANGED aggVars
    /\ UNCHANGED quit_mark
    /\ UNCHANGED rmsVars
    /\ UNCHANGED asVars

\* mutant of OpenFail: a failed open ends every capture thread
OpenFail_StopsAll(t) ==
    /\ threads[t].pc = "open"
    /\ threads' = [u \in DOMAIN threads |-> [threads[u] EXCEPT !.pc = "stopped"]]
    /\ UNCHANGED <<devs, frames_left, buffer, quit_flag, pushed>>
    /\ UNCHANGED mainVars
    /\ UNCHANGED aggVars
    /\ UNCHANGED quit_mark
    /\ UNCHANGED rmsVars
    /\ UNCHANGED asVars

\* final.py:77, p.open raises outside the try: the thread ends
OpenFail(t) ==
    /\ threads[t].pc = "open"
    /\ threads' = [threads EXCEPT ![t].pc = "stopped"]
    /\ UNCHANGED <<devs, frames_left, buffer, quit_flag, pushed>>
    /\ UNCHANGED mainVars
    /\ UNCHANGED aggVars
    /\ UNCHANGED quit_mark
    /\ UNCHANGED rmsVars
    /\ UNCHANGED asVars

\* final.py:109-111, the except clause: print and break
OnException(th) == [th EXCEPT !.pc = "stopped", !.err = TRUE]

\* final.py:88-97, a read that returns a frame of loudness v, then the append
ReadFrame(t, v) ==
    /\ threads[t].pc = "read"
    /\ frames_left[threads[t].index + 1] > 0
    /\ frames_left' = [frames_left EXCEPT ![threads[t].index + 1] = @ - 1]
    /\ IF threads[t].index < Len(buffer)
       THEN /\ buffer' = [buffer EXCEPT ![threads[t].index + 1] = Append(@, v)]
            /\ pushed' = [pushed EXCEPT ![threads[t].index + 1] = Append(@, v)]
            /\ threads' = [threads EXCEPT ![t].pc = "trim"]
       ELSE \* buffer[index] raises IndexError inside the try
            /\ threads' = [threads EXCEPT ![t] = OnException(@)]
            /\ UNCHANGED <<buffer, pushed>>
    /\ UNCHANGED <<devs, quit_flag>>
    /\ UNCHANGED mainVars
    /\ UNCHANGED aggVars
    /\ UNCHANGED quit_mark
    /\ UNCHANGED rmsVars
    /\ UNCHANGED asVars

\* final.py:88-94, stream.read (or a statement after it, before the append) raises
ReadError(t) ==
    /\ threads[t].pc = "read"
    /\ threads' = [threads EXCEPT ![t] = OnException(@)]
    /\ UNCHANGED <<devs, frames_left, buffer, quit_flag, pushed>>
    /\ UNCHANGED mainVars
    /\ UNCHANGED aggVars
    /\ UNCHANGED quit_mark
    /\ UNCHANGED rmsVars
    /\ UNCHANGED asVars

\* mutant of Trimmed: the slice keeps the oldest samples
Trimmed_KeepsOldest(b) == SubSeq(b, 1, Capacity)

\* final.py:99, the slice that replaces the list
Trimmed(b) == LastN(b, Capacity)

\* mutant of AfterQuitTest: the loop never tests the flag
AfterQuitTest_NoTest(th, q) == [th EXCEPT !.pc = "read"]

\* final.py:104-108, the thread after the quit test
AfterQuitTest(th, q) ==
    IF q THEN [th EXCEPT !.pc = "stopped", !.stream = "closed"]
         ELSE [th EXCEPT !.pc = "read"]

\* final.py:98-108: the trim, calculate_device_stats (which only prints) and
\* the quit test that ends the iteration
TrimAndQuitCheck(t) ==
    LET k == threads[t].index + 1 IN
    /\ threads[t].pc = "trim"
    /\ threads' = [threads EXCEPT ![t] = AfterQuitTest(@, quit_flag)]
    /\ IF Len(buffer[k]) > Capacity
       THEN /\ buffer' = [buffer EXCEPT ![k] = Trimmed(@)]
            \* a reader still holding the old list object keeps the old list
            /\ det_b' = IF det_b.live /\ det_i + 1 = k
                        THEN [live |-> FALSE, val |-> buffer[k]]
                        ELSE det_b
       ELSE UNCHANGED <<buffer, det_b>>
    /\ UNCHANGED <<devs, frames_left, quit_flag, pushed>>
    /\ UNCHANGED mainVars
    /\ UNCHANGED <<agg_pc, agg_any, combined, det_i, det_mean, faulty, nodata>>
    /\ UNCHANGED quit_mark
    /\ UNCHANGED rmsVars
    /\ UNCHANGED asVars

(* ---------------- aggregation: periodic_tasks ---------------- *)

\* mutant of AnyData: the test of line 42 always succeeds
AnyData_Always(bufs) == TRUE

\* final.py:42, any(len(b) > 0 for b in buffer)
AnyData(bufs) == \E k \in 1..Len(bufs) : Len(bufs[k]) > 0

\* final.py:42
CombinedTest ==
    /\ agg_pc = "combined"
    /\ agg_any' = AnyData(buffer)
    /\ agg_pc' = "concat"
    /\ UNCHANGED <<devs, frames_left, buffer, threads, quit_flag, pushed,
                   combined, det_i, det_b, det_mean, faulty, nodata>>
    /\ UNCHANGED mainVars
    /\ UNCHANGED quit_mark
    /\ UNCHANGED rmsVars
    /\ UNCHANGED asVars

\* final.py:43-44, the pooled samples and their mean
CombinedOf(bufs) == Mean(Concat(NonEmpty(bufs)))

\* final.py:43-48, then detect_faulty_sources starts its loop; np.concatenate
\* of an empty list of arrays raises ValueError, which ends the call of
\* periodic_tasks before the next Timer is started (and the module, when the
\* call is the first one)
CombinedStats ==
    /\ agg_pc = "concat"
    /\ IF agg_any /\ NonEmpty(buffer) = <<>>
       THEN /\ agg_pc' = "failed"
            /\ main_pc' = IF main_pc = "periodic" THEN "crashed" ELSE main_pc
            /\ UNCHANGED <<combined, agg_any, det_i>>
       ELSE /\ combined' = IF agg_any THEN CombinedOf(buffer) ELSE NoStats
            /\ agg_any' = FALSE
            /\ agg_pc' = "det_test"
            /\ det_i' = 0
            /\ main_pc' = main_pc
    /\ UNCHANGED <<devs, frames_left, buffer, threads, quit_flag, pushed,
                   det_b, det_mean, faulty, nodata>>
    /\ UNCHANGED <<i, join_k, labels>>
    /\ UNCHANGED quit_mark
    /\ UNCHANGED rmsVars
    /\ UNCHANGED asVars

\* the contents of the list object b right now
BNow == IF det_b.live THEN buffer[det_i + 1] ELSE det_b.val

\* final.py:66, len(b) > 0 and np.mean(b) < FAULT_THRESHOLD
IsFaulty(b) == Len(b) > 0 /\ BelowThreshold(Mean(b))

\* final.py:65-66 and 68-69: next item of enumerate(buffer) and its tests
DetectTest ==
    /\ agg_pc = "det_test"
    /\ IF det_i >= Len(buffer)
       THEN /\ agg_pc' = "arm"
            /\ UNCHANGED <<det_i, det_b, det_mean, faulty, nodata>>
       ELSE LET b == buffer[det_i + 1] IN
            IF IsFaulty(b)
            THEN /\ agg_pc' = "det_report"
                 /\ det_b' = [live |-> TRUE, val |-> <<>>]
                 /\ det_mean' = Mean(b)
                 /\ UNCHANGED <<det_i, faulty, nodata>>
            ELSE /\ nodata' = IF Len(b) = 0 THEN nodata \cup {det_i} ELSE nodata
                 /\ det_i' = det_i + 1
                 /\ UNCHANGED <<agg_pc, det_b, det_mean, faulty>>
    /\ UNCHANGED <<devs, frames_left, buffer, threads, quit_flag, pushed,
                   agg_any, combined>>
    /\ UNCHANGED mainVars
    /\ UNCHANGED quit_mark
    /\ UNCHANGED rmsVars
    /\ UNCHANGED asVars

\* final.py:67, the message with np.mean(b) evaluated again
DetectReport ==
    /\ agg_pc = "det_report"
    /\ faulty' = faulty \cup {[dev |-> det_i, mean |-> Mean(BNow)]}
    /\ det_b' = [live |-> FALSE, val |-> <<>>]
    /\ det_mean' = NoStats
    /\ det_i' = det_i + 1
    /\ agg_pc' = "det_test"
    /\ UNCHANGED <<devs, frames_left, buffer, threads, quit_flag, pushed,
                   agg_any, combined, nodata>>
    /\ UNCHANGED mainVars
    /\ UNCHANGED quit_mark
    /\ UNCHANGED rmsVars
    /\ UNCHANGED asVars

\* final.py:179, threading.Timer(5, periodic_tasks).start(); the first call
\* then returns to the main thread, which shows the window and enters the GUI loop.
\* combined, faulty and nodata hold what the running cycle has printed: the
\* cycle ends here and its report is complete in the state before this step
StartTimer ==
    /\ agg_pc = "arm"
    /\ agg_pc' = "timer"
    /\ main_pc' = IF main_pc = "periodic" THEN "exec" ELSE main_pc
    /\ combined' = NoStats
    /\ faulty' = {}
    /\ nodata' = {}
    /\ det_i' = 0
    /\ UNCHANGED <<devs, frames_left, i, join_k, labels, buffer, threads,
                   quit_flag, pushed, agg_any, det_b, det_mean>>
    /\ UNCHANGED quit_mark
    /\ UNCHANGED rmsVars
    /\ UNCHANGED asVars

\* the Timer thread runs periodic_tasks after 5 seconds
TimerFire ==
    /\ agg_pc = "timer"
    /\ agg_pc' = "combined"
    /\ UNCHANGED <<devs, frames_left, buffer, threads, quit_flag, pushed,
                   agg_any, combined, det_i, det_b, det_mean, faulty, nodata>>
    /\ UNCHANGED mainVars
    /\ UNCHANGED quit_mark
    /\ UNCHANGED rmsVars
    /\ UNCHANGED asVars

(* ---------------- specifications ---------------- *)

AggStep == CombinedTest \/ CombinedStats \/ DetectTest \/ DetectReport
              \/ StartTimer \/ TimerFire

Next ==
    \/ StartupIter
    \/ PeriodicFirst
    \/ exit_method
    \/ Join
    \/ Terminate
    \/ \E t \in Workers : OpenOk(t)
    \/ \E t \in Workers : OpenFail(t)
    \/ \E t \in Workers : ReadFrame(t, Loudness(threads[t].index))
    \/ \E t \in Workers : ReadError(t)
    \/ \E t \in Workers : TrimAndQuitCheck(t)
    \/ CombinedTest
    \/ CombinedStats
    \/ DetectTest
    \/ DetectReport
    \/ StartTimer
    \/ TimerFire

Spec == Init /\ [][Next]_vars

(* One input device whose n-th frame has loudness n, so every sample of the *)
(* history is distinct.  A run starts either at program start or in the     *)
(* state the program is in after Capacity - 1 complete iterations of the    *)
(* worker, with the GUI loop running and the Timer pending; from there the   *)
(* device delivers ExtraFrames + 1 more frames, which takes the buffer to   *)
(* Capacity and ExtraFrames times beyond it.                                 *)

\* <<1, 2, ..., n>>
RampTo(n) == [k \in 1..n |-> k]

\* the state after Capacity - 1 iterations of the only worker
WarmState ==
    /\ RmsIdle
    /\ AsIdle
    /\ quit_mark = <<>>
    /\ main_pc = "exec"
    /\ i = 1
    /\ join_k = 0
    /\ labels = <<0>>
    /\ buffer = <<RampTo(Capacity - 1)>>
    /\ pushed = <<RampTo(Capacity - 1)>>
    /\ threads = <<[NewThread(0) EXCEPT !.pc = "read", !.stream = "open"]>>
    /\ quit_flag = FALSE
    /\ agg_pc = "timer"
    /\ agg_any = FALSE
    /\ combined = NoStats
    /\ det_i = 0
    /\ det_b = [live |-> FALSE, val |-> <<>>]
    /\ det_mean = NoStats
    /\ faulty = {}
    /\ nodata = {}

InitBuf ==
    /\ devs = <<TRUE>>
    /\ frames_left = <<ExtraFrames + 1>>
    /\ (InitGlobals \/ WarmState)

\* loudness of the next frame of the device of thread t
Ramp(t) == Len(pushed[threads[t].index + 1]) + 1

NextBuf ==
    \/ StartupIter
    \/ PeriodicFirst
    \/ exit_method
    \/ Join
    \/ Terminate
    \/ \E t \in Workers : OpenOk(t)
    \/ \E t \in Workers : OpenFail(t)
    \/ \E t \in Workers : ReadFrame(t, Ramp(t))
    \/ \E t \in Workers : ReadError(t)
    \/ \E t \in Workers : TrimAndQuitCheck(t)
    \/ CombinedTest
    \/ CombinedStats
    \/ DetectTest
    \/ DetectReport
    \/ StartTimer
    \/ TimerFire

SpecBuf == InitBuf /\ [][NextBuf]_vars

(* Fairness: a thread that can take a step of its code takes it; the Timer *)
(* fires; a read returns while the device still delivers frames.  Nothing  *)
(* forces the user to close the window, a read to fail or an open to fail. *)

MainRun == StartupIter \/ PeriodicFirst \/ Join \/ Terminate

WorkerRun(t) ==
    /\ t \in Workers
    /\ (OpenOk(t) \/ ReadFrame(t, Loudness(threads[t].index)) \/ TrimAndQuitCheck(t))

FairSpec ==
    /\ Spec
    /\ WF_vars(MainRun)
    /\ WF_vars(AggStep)
    /\ \A t \in 1..MaxDevices : WF_vars(WorkerRun(t))

(* The aggregation functions on given buffers: every device is an input     *)
(* device whose worker sits in a read that never returns, the buffers hold  *)
(* what the workers pushed before, and the main thread makes the first call *)
(* of periodic_tasks.                                                       *)

SampleValues == {1, 10, 19}

SampleBuffers ==
    {<<>>, <<50, 52, 51>>, <<2, 1, 3>>}
        \cup UNION {[1..n -> SampleValues] : n \in 1..MaxSamples}

InitAgg ==
    /\ \E n \in 1..MaxDevices :
          /\ devs = [k \in 1..n |-> TRUE]
          /\ frames_left = [k \in 1..n |-> 0]
          /\ i = n
          /\ labels = [k \in 1..n |-> k - 1]
          /\ buffer \in [1..n -> SampleBuffers]
          /\ threads = [k \in 1..n |->
                           [NewThread(k - 1) EXCEPT !.pc = "read", !.stream = "open"]]
    /\ pushed = buffer
    /\ RmsIdle
    /\ AsIdle
    /\ quit_mark = <<>>
    /\ main_pc = "periodic"
    /\ join_k = 0
    /\ quit_flag = FALSE
    /\ agg_pc = "combined"
    /\ agg_any = FALSE
    /\ combined = NoStats
    /\ det_i = 0
    /\ det_b = [live |-> FALSE, val |-> <<>>]
    /\ det_mean = NoStats
    /\ faulty = {}
    /\ nodata = {}

NextAgg ==
    \/ CombinedTest
    \/ CombinedStats
    \/ DetectTest
    \/ DetectReport
    \/ StartTimer
    \/ TimerFire

SpecAgg == InitAgg /\ [][NextAgg]_vars

(* ---------------- audiosensors.py ---------------- *)

(* The capture thread of audiosensors.py has no try: any exception ends it *)
(* with its stream open.  The quit condition of both loops is              *)
(* keyboard.is_pressed('q') or quit_flag; the key is the user's to press   *)
(* and to release at any time.                                             *)

\* audiosensors.py:155-170, one iteration of the startup loop: the same
\* statements as final.py:157-172 without the plot
AsStartupIter == StartupIter

\* audiosensors.py:182-188, main_thread is started, then the GUI loop runs
AsStartMain ==
    /\ main_pc = "loop"
    /\ i = numdevices
    /\ main_pc' = "exec"
    /\ mt_pc' = "check"
    /\ UNCHANGED <<devs, frames_left, i, join_k, labels, buffer, threads,
                   quit_flag, pushed, quit_mark>>
    /\ UNCHANGED aggVars
    /\ UNCHANGED rmsVars
    /\ UNCHANGED <<key, mt_i, mt_new, stale>>

\* audiosensors.py:92-94 and 188: the GUI loop ends, aboutToQuit calls
\* exitMethod, and the module has no statement left
exitMethod ==
    /\ main_pc = "exec"
    /\ quit_flag' = QuitFlagAfterExit(quit_flag)
    /\ main_pc' = "done"
    /\ quit_mark' = [k \in 1..Len(pushed) |-> Len(pushed[k])]
    /\ UNCHANGED <<devs, frames_left, i, join_k, labels, buffer, threads, pushed>>
    /\ UNCHANGED aggVars
    /\ UNCHANGED rmsVars
    /\ UNCHANGED asVars

\* the user presses q
KeyPress ==
    /\ ~key
    /\ key' = TRUE
    /\ UNCHANGED <<devs, frames_left, buffer, threads, quit_flag, pushed, quit_mark>>
    /\ UNCHANGED mainVars
    /\ UNCHANGED aggVars
    /\ UNCHANGED rmsVars
    /\ UNCHANGED <<mt_pc, mt_i, mt_new, stale>>

\* the user releases q
KeyRelease ==
    /\ key
    /\ key' = FALSE
    /\ UNCHANGED <<devs, frames_left, buffer, threads, quit_flag, pushed, quit_mark>>
    /\ UNCHANGED mainVars
    /\ UNCHANGED aggVars
    /\ UNCHANGED rmsVars
    /\ UNCHANGED <<mt_pc, mt_i, mt_new, stale>>

\* audiosensors.py:49-56, p.open succeeds
AsOpenOk(t) == OpenOk(t)

\* audiosensors.py:49, p.open raises: the thread ends
AsOpenFail(t) == OpenFail(t)

\* audiosensors.py:61-70, stream.read returns a frame, audioop.rms gives its
\* loudness and buffer[index] is evaluated: the thread now holds the list
\* object it is about to append to
AsRead(t) ==
    /\ threads[t].pc = "read"
    /\ frames_left[threads[t].index + 1] > 0
    /\ frames_left' = [frames_left EXCEPT ![threads[t].index + 1] = @ - 1]
    /\ threads' = IF threads[t].index < Len(buffer)
                  THEN [threads EXCEPT ![t].pc = "append"]
                  ELSE \* buffer[index] raises IndexError
                       [threads EXCEPT ![t] = OnException(@)]
    /\ UNCHANGED <<devs, buffer, quit_flag, pushed, quit_mark>>
    /\ UNCHANGED mainVars
    /\ UNCHANGED aggVars
    /\ UNCHANGED rmsVars
    /\ UNCHANGED asVars

\* audiosensors.py:61, stream.read raises: the thread ends
AsReadError(t) == ReadError(t)

\* audiosensors.py:70-88, the append to the list the thread holds, then the
\* quit test; a list that buffer no longer holds takes the sample with it
AsAppend(t) ==
    LET k == threads[t].index + 1
        v == Loudness(threads[t].index)
    IN
    /\ threads[t].pc = "append"
    /\ pushed' = [pushed EXCEPT ![k] = Append(@, v)]
    /\ buffer' = IF t \in stale THEN buffer
                                ELSE [buffer EXCEPT ![k] = Append(@, v)]
    /\ stale' = stale \ {t}
    /\ threads' = [threads EXCEPT ![t] = AfterQuitTest(@, key \/ quit_flag)]
    /\ UNCHANGED <<devs, frames_left, quit_flag, quit_mark>>
    /\ UNCHANGED mainVars
    /\ UNCHANGED aggVars
    /\ UNCHANGED rmsVars
    /\ UNCHANGED <<key, mt_pc, mt_i, mt_new>>

\* audiosensors.py:106-113 and 118, the exit test of mainThread
MtCheck ==
    /\ mt_pc = "check"
    /\ IF key \/ quit_flag
       THEN /\ mt_pc' = "join"
            /\ join_k' = 1
            /\ mt_i' = mt_i
       ELSE /\ mt_pc' = "slice"
            /\ mt_i' = 0
            /\ join_k' = join_k
    /\ UNCHANGED <<devs, frames_left, main_pc, i, labels, buffer, threads,
                   quit_flag, pushed, quit_mark>>
    /\ UNCHANGED aggVars
    /\ UNCHANGED rmsVars
    /\ UNCHANGED <<key, mt_new, stale>>

\* audiosensors.py:118-119, next i of the trim loop and the right-hand side
\* buffer[i][-buffer_width:], a new list
MtSlice ==
    /\ mt_pc = "slice"
    /\ IF mt_i >= Len(buffer)
       THEN /\ mt_pc' = "check"
            /\ mt_new' = mt_new
       ELSE /\ mt_new' = LastN(buffer[mt_i + 1], buffer_width)
            /\ mt_pc' = "store"
    /\ UNCHANGED <<devs, frames_left, buffer, threads, quit_flag, pushed, quit_mark>>
    /\ UNCHANGED mainVars
    /\ UNCHANGED aggVars
    /\ UNCHANGED rmsVars
    /\ UNCHANGED <<key, mt_i, stale>>

\* audiosensors.py:119, the store buffer[i] = <new list>; a worker that has
\* evaluated buffer[i] and not yet appended is left with the old list
MtStore ==
    /\ mt_pc = "store"
    /\ buffer' = [buffer EXCEPT ![mt_i + 1] = mt_new]
    /\ stale' = stale \cup {t \in Workers : threads[t].pc = "append"
                                             /\ threads[t].index = mt_i}
    /\ mt_new' = <<>>
    /\ mt_i' = mt_i + 1
    /\ mt_pc' = "slice"
    /\ UNCHANGED <<devs, frames_left, threads, quit_flag, pushed, quit_mark>>
    /\ UNCHANGED mainVars
    /\ UNCHANGED aggVars
    /\ UNCHANGED rmsVars
    /\ UNCHANGED key

\* audiosensors.py:110-111, x.join() of one thread
MtJoin ==
    /\ mt_pc = "join"
    /\ IF join_k > Len(threads)
       THEN /\ mt_pc' = "terminate"
            /\ join_k' = join_k
       ELSE /\ threads[join_k].pc = "stopped"
            /\ join_k' = join_k + 1
            /\ mt_pc' = mt_pc
    /\ UNCHANGED <<devs, frames_left, main_pc, i, labels, buffer, threads,
                   quit_flag, pushed, quit_mark>>
    /\ UNCHANGED aggVars
    /\ UNCHANGED rmsVars
    /\ UNCHANGED <<key, mt_i, mt_new, stale>>

\* audiosensors.py:112-113 and 129: p.terminate(), break, "Execution finished"
MtTerminate ==
    /\ mt_pc = "terminate"
    /\ mt_pc' = "done"
    /\ UNCHANGED <<devs, frames_left, buffer, threads, quit_flag, pushed, quit_mark>>
    /\ UNCHANGED mainVars
    /\ UNCHANGED aggVars
    /\ UNCHANGED rmsVars
    /\ UNCHANGED <<key, mt_i, mt_new, stale>>

MtRun == MtCheck \/ MtSlice \/ MtStore \/ MtJoin \/ MtTerminate

NextAS ==
    \/ AsStartupIter
    \/ AsStartMain
    \/ exitMethod
    \/ KeyPress
    \/ KeyRelease
    \/ \E t \in Workers : AsOpenOk(t)
    \/ \E t \in Workers : AsOpenFail(t)
    \/ \E t \in Workers : AsRead(t)
    \/ \E t \in Workers : AsReadError(t)
    \/ \E t \in Workers : AsAppend(t)
    \/ MtCheck
    \/ MtSlice
    \/ MtStore
    \/ MtJoin
    \/ MtTerminate

SpecAS == Init /\ [][NextAS]_vars

(* Fairness for audiosensors.py: the module, mainThread and every capture  *)
(* thread take the steps they can take; nothing forces the user to press   *)
(* or release the key or to close the window, or a call to fail.           *)

AsMainRun == AsStartupIter \/ AsStartMain

AsWorkerRun(t) ==
    /\ t \in Workers
    /\ (AsOpenOk(t) \/ AsRead(t) \/ AsAppend(t))

FairSpecAS ==
    /\ SpecAS
    /\ WF_vars(AsMainRun)
    /\ WF_vars(MtRun)
    /\ \A t \in 1..MaxDevices : WF_vars(AsWorkerRun(t))

(* The loudness expression of log_sound on given frames: the only worker has *)
(* just read a frame; the three array operations of line 90 follow.          *)

\* width of a sample and of an element of signal ** 2
Int16Bits == 16

\* 2 ** Int16Bits
TwoTo16 == 2 ^ Int16Bits

\* the int16 value an integer result is stored as (two's complement wrap)
Wrap16(x) == ((x + TwoTo16 \div 2) % TwoTo16) - TwoTo16 \div 2

\* the integer part of the square root of x >= 0
ISqrt(x) == CHOOSE r \in 0..x : r * r <= x /\ (r + 1) * (r + 1) > x

\* np.sqrt(m) for the mean m = sum / n: nan for a negative mean, else the
\* root, of which the model keeps the integer part
SqrtOfMean(m) ==
    IF m.sum < 0 THEN [nan |-> TRUE, root |-> 0]
                 ELSE [nan |-> FALSE, root |-> ISqrt(m.sum \div m.n)]

\* sample values of the enumerated frames
SampleInts == {-20000, -200, -182, 0, 1, 181, 182, 200, 256, 20000}

SampleFrames == UNION {[1..n -> SampleInts] : n \in 1..MaxFrameLen}

InitRms ==
    /\ devs = <<TRUE>>
    /\ frames_left = <<0>>
    /\ main_pc = "exec"
    /\ i = 1
    /\ join_k = 0
    /\ labels = <<0>>
    /\ buffer = <<(<<>>)>>
    /\ pushed = <<(<<>>)>>
    /\ threads = <<[NewThread(0) EXCEPT !.pc = "read", !.stream = "open"]>>
    /\ quit_flag = FALSE
    /\ quit_mark = <<>>
    /\ agg_pc = "timer"
    /\ agg_any = FALSE
    /\ combined = NoStats
    /\ det_i = 0
    /\ det_b = [live |-> FALSE, val |-> <<>>]
    /\ det_mean = NoStats
    /\ faulty = {}
    /\ nodata = {}
    /\ AsIdle
    /\ signal \in SampleFrames
    /\ squares = <<>>
    /\ meansq = [sum |-> 0, n |-> 0]
    /\ volume = [nan |-> FALSE, root |-> 0]
    /\ rms_pc = "square"

\* everything but the loudness expression
restVars == <<devs, frames_left, main_pc, i, join_k, labels, buffer, threads,
              quit_flag, agg_pc, agg_any, combined, det_i, det_b, det_mean,
              faulty, nodata, pushed, quit_mark, key, mt_pc, mt_i, mt_new, stale>>

\* final.py:90, signal ** 2: an int16 array, each square stored in 16 bits
RmsSquare ==
    /\ rms_pc = "square"
    /\ squares' = [k \in 1..Len(signal) |-> Wrap16(signal[k] * signal[k])]
    /\ rms_pc' = "mean"
    /\ UNCHANGED <<signal, meansq, volume>>
    /\ UNCHANGED restVars

\* final.py:90, np.mean of that array, accumulated in float64
RmsMean ==
    /\ rms_pc = "mean"
    /\ meansq' = Mean(squares)
    /\ rms_pc' = "sqrt"
    /\ UNCHANGED <<signal, squares, volume>>
    /\ UNCHANGED restVars

\* final.py:90, np.sqrt of the mean
RmsSqrt ==
    /\ rms_pc = "sqrt"
    /\ volume' = SqrtOfMean(meansq)
    /\ rms_pc' = "done"
    /\ UNCHANGED <<signal, squares, meansq>>
    /\ UNCHANGED restVars

NextRms == RmsSquare \/ RmsMean \/ RmsSqrt

SpecRms == InitRms /\ [][NextRms]_vars

(* ---------------- properties ---------------- *)

TypeOK ==
    /\ main_pc \in {"loop", "periodic", "exec", "join", "terminate", "done", "crashed"}
    /\ agg_pc \in {"idle", "combined", "concat", "det_test", "det_report", "arm", "timer",
                 "failed"}
    /\ quit_flag \in BOOLEAN
    /\ Len(pushed) = Len(buffer)
    /\ \A t \in Workers : threads[t].pc \in {"open", "read", "trim", "append", "stopped"}

\* the buffer slot thread t pushes into
SlotOf(t) == threads[t].index + 1

\* thread t is between two iterations of its loop, or has left it
IterationDone(t) == threads[t].pc \in {"read", "stopped"}

\* C1: at the end of every iteration of a capture worker (after the append and
\* the trim) the buffer of its device holds exactly min(totalPushes, Capacity)
\* samples, and they are the most recent pushed values in arrival order.
BufferHoldsMostRecent ==
    \A t \in Workers :
        (IterationDone(t) /\ SlotOf(t) <= Len(buffer)) =>
            LET b == buffer[SlotOf(t)]
                h == pushed[SlotOf(t)]
            IN /\ Len(b) = (IF Len(h) < Capacity THEN Len(h) ELSE Capacity)
               /\ \A j \in 1..Len(b) : b[j] = h[Len(h) - Len(b) + j]

\* C1 witness: a worker has completed an iteration that pushed its
\* (Capacity + 2)-th sample
W_BufferWrapped ==
    \E t \in Workers :
        /\ IterationDone(t)
        /\ Len(pushed[SlotOf(t)]) = Capacity + 2
        /\ Len(buffer[SlotOf(t)]) = Capacity

\* C2: in every reachable state, also between a worker's append and its trim,
\* every device buffer holds at most Capacity samples.
BufferWithinCapacity == \A k \in 1..Len(buffer) : Len(buffer[k]) <= Capacity

\* the next read of thread t, if it still makes one, returns a frame
ReadsComplete(t) ==
    threads[t].pc \in {"open", "read"} => frames_left[SlotOf(t)] > 0

\* C3: after exit_method has set quit_flag, every capture worker whose reads
\* complete ends its thread, and when that is so for all workers the joins of
\* the cleanup return.
WorkersStopAfterQuit ==
    /\ \A t \in 1..MaxDevices :
          (quit_flag /\ t \in Workers /\ ReadsComplete(t))
              ~> (t \in Workers /\ threads[t].pc = "stopped")
    /\ (quit_flag /\ \A t \in Workers : ReadsComplete(t))
          ~> (main_pc \in {"terminate", "done"})

\* C3 witness: after the quit a worker has closed its stream and ended, and
\* the joins have returned
W_StoppedAfterQuit ==
    /\ quit_flag
    /\ main_pc = "done"
    /\ \E t \in Workers : threads[t].pc = "stopped" /\ threads[t].stream = "closed"

\* C4: once quit_flag is set the timer chain of periodic_tasks ends: from some
\* point on no aggregation cycle runs and no Timer is pending.
AggregationStopsAfterQuit == quit_flag ~> [](agg_pc = "idle")

\* C5: a shutdown request always completes: the joins and the release of the
\* audio subsystem reach their end, also when a worker never stops.
ShutdownCompletes == quit_flag ~> (main_pc = "done")

\* C6: a read that raises does not end monitoring: the worker is not stopped
\* by it.
ReadErrorKeepsRunning ==
    \A t \in Workers : threads[t].err => threads[t].pc # "stopped"

\* thread t never opened a stream
NeverOpened(t) == threads[t].stream = "none"

\* C7: a worker whose open fails ends at once and never pushes a sample, and
\* the step in which it ends changes no buffer, no other worker and not the
\* quit flag.
OpenFailureIsolated ==
    /\ [](\A t \in Workers :
            NeverOpened(t) =>
                /\ threads[t].pc \in {"open", "stopped"}
                /\ SlotOf(t) <= Len(pushed) => pushed[SlotOf(t)] = <<>>)
    /\ [][\A t \in Workers :
            (threads[t].pc = "open" /\ threads'[t].pc = "stopped") =>
                /\ buffer' = buffer
                /\ quit_flag' = quit_flag
                /\ Len(threads') = Len(threads)
                /\ \A u \in Workers \ {t} : threads'[u] = threads[u]]_vars

\* C7 witness: one worker failed to open and is stopped with an empty buffer
\* while another worker has pushed a sample and is still in its loop
W_OpenFailedOtherRuns ==
    \E t, u \in Workers :
        /\ t # u
        /\ NeverOpened(t) /\ threads[t].pc = "stopped"
        /\ buffer[SlotOf(t)] = <<>>
        /\ threads[u].pc = "read" /\ Len(pushed[SlotOf(u)]) > 0

\* C8: no worker that opened its stream is stopped with the stream still open.
StoppedWorkersClosedStream ==
    \A t \in Workers : threads[t].pc = "stopped" => threads[t].stream # "open"

\* device indices with maxInputChannels > 0
InputDevices == {k \in 0..(numdevices - 1) : devs[k + 1]}

\* C9: once the startup loop is over there is exactly one buffer slot and one
\* capture worker per input device, and the worker of device index k has a
\* slot buffer[k] that was made for device k.
OneSlotAndWorkerPerInputDevice ==
    main_pc # "loop" =>
        /\ Len(buffer) = Cardinality(InputDevices)
        /\ {threads[t].index : t \in Workers} = InputDevices
        /\ Len(threads) = Cardinality(InputDevices)
        /\ \A t \in Workers :
              /\ SlotOf(t) <= Len(buffer)
              /\ labels[SlotOf(t)] = threads[t].index

RECURSIVE Total(_, _)
\* b[1] + ... + b[n]
Total(b, n) == IF n = 0 THEN 0 ELSE Total(b, n - 1) + b[n]

RECURSIVE PooledTotal(_)
\* the sum of all samples of the first n buffers
PooledTotal(n) ==
    IF n = 0 THEN 0 ELSE PooledTotal(n - 1) + Total(buffer[n], Len(buffer[n]))

RECURSIVE PooledCount(_)
\* the number of samples of the first n buffers
PooledCount(n) == IF n = 0 THEN 0 ELSE PooledCount(n - 1) + Len(buffer[n])

\* device index k has samples whose mean is below the threshold
LowMean(k) ==
    /\ Len(buffer[k + 1]) > 0
    /\ Total(buffer[k + 1], Len(buffer[k + 1])) < FAULT_THRESHOLD * Len(buffer[k + 1])

\* C10: a completed aggregation cycle over unchanging buffers has flagged
\* device k as faulty exactly when its buffer is non-empty with a mean below
\* the threshold, and has reported the mean of the pooled samples; for
\* [50,52,51] and [2,1,3] it flags device 1 only and reports 159/6 = 26.5.
AggregationReport ==
    agg_pc = "arm" =>
        /\ {f.dev : f \in faulty} = {k \in 0..(Len(buffer) - 1) : LowMean(k)}
        /\ \A f \in faulty :
              f.mean.sum = Total(buffer[f.dev + 1], f.mean.n)
                 /\ f.mean.n = Len(buffer[f.dev + 1])
        /\ combined.sum = PooledTotal(Len(buffer))
        /\ combined.n = PooledCount(Len(buffer))
        /\ buffer = <<(<<50, 52, 51>>), (<<2, 1, 3>>)>> =>
              /\ {f.dev : f \in faulty} = {1}
              /\ combined = [sum |-> 159, n |-> 6]
              /\ 2 * combined.sum = 53 * combined.n

\* C10 witness: the cycle over [50,52,51] and [2,1,3] is complete
W_ExampleCycleDone ==
    /\ agg_pc = "arm"
    /\ buffer = <<(<<50, 52, 51>>), (<<2, 1, 3>>)>>
    /\ faulty # {}

\* C11: no aggregation cycle flags a device "no data" before the device has
\* been running for a full aggregation period; in particular the first call of
\* periodic_tasks, which the main thread makes right after the startup loop,
\* flags none.
NoDataOnlyAfterFullPeriod == main_pc = "periodic" => nodata = {}

\* the thread of worker t has ended on an error, at the open or in the loop
FailedWorker(t) == threads[t].pc = "stopped" /\ threads[t].stream # "closed"

\* C12: the device of a failed worker is flagged by every aggregation cycle
\* that looks at it after the failure: the step of detect_faulty_sources that
\* tests the device either goes on to report a low mean or reports no data.
FailedDeviceIsFlagged ==
    [][\A t \in Workers :
          (/\ FailedWorker(t)
           /\ agg_pc = "det_test"
           /\ det_i = threads[t].index
           /\ (agg_pc' # agg_pc \/ det_i' # det_i))
              => (agg_pc' = "det_report" \/ det_i \in nodata')]_vars

RECURSIVE SumOfSquares(_)
\* the sum of the squares of the samples, in unbounded integers
SumOfSquares(f) ==
    IF f = <<>> THEN 0 ELSE Head(f) * Head(f) + SumOfSquares(Tail(f))

\* C13: for every frame of 16-bit samples the mean of the squares computed on
\* line 90 is never negative and is the true mean of the squares, and the
\* loudness that results is a number within 0..32767.
LoudnessIsTrueRms ==
    /\ rms_pc \in {"sqrt", "done"} =>
          /\ meansq.sum >= 0
          /\ meansq.n = Len(signal)
          /\ meansq.sum = SumOfSquares(signal)
    /\ rms_pc = "done" => (~volume.nan /\ volume.root \in 0..32767)

\* C14: no aggregation cycle fails, whatever the buffers hold and however they
\* change between the emptiness test and the concatenation; a cycle over
\* buffers that are all empty reports "no data" for the pool and for every
\* device and flags no device as faulty.
AggregationNeverFails ==
    /\ agg_pc # "failed"
    /\ agg_pc = "concat" /\ agg_any => NonEmpty(buffer) # <<>>
    /\ (agg_pc = "arm" /\ \A k \in 1..Len(buffer) : buffer[k] = <<>>) =>
          /\ combined = NoStats
          /\ faulty = {}
          /\ nodata = 0..(Len(buffer) - 1)

\* C14 witness: a cycle over two empty buffers is complete
W_EmptyCycleDone ==
    /\ agg_pc = "arm"
    /\ Len(buffer) = 2
    /\ \A k \in 1..Len(buffer) : buffer[k] = <<>>
    /\ nodata = {0, 1}

\* list b is h[off + 1 .. off + Len(b)]: consecutive pushes in arrival order
IsRunAt(b, h, off) == \A j \in 1..Len(b) : b[j] = h[off + j]

\* C15: whatever a reader reads while a push is in progress is a run of
\* consecutive pushed samples in arrival order: every device buffer, in every
\* state, also between the append and the trim, is the run that ends with the
\* newest sample, and the list detect_faulty_sources holds between its test
\* and its report is a run of the device's pushes.
ReaderSeesContiguousRun ==
    /\ \A k \in 1..Len(buffer) :
          /\ Len(buffer[k]) <= Len(pushed[k])
          /\ IsRunAt(buffer[k], pushed[k], Len(pushed[k]) - Len(buffer[k]))
    /\ agg_pc = "det_report" =>
          \E off \in 0..Len(pushed[det_i + 1]) :
              /\ off + Len(BNow) <= Len(pushed[det_i + 1])
              /\ IsRunAt(BNow, pushed[det_i + 1], off)

\* C15 witness: the aggregation is between its emptiness test and its
\* concatenation while a worker is between the append of a sample beyond the
\* capacity and the trim, after an earlier trim has replaced the list
W_ReadDuringPush ==
    /\ agg_pc = "concat"
    /\ agg_any
    /\ \E t \in Workers :
          /\ threads[t].pc = "trim"
          /\ Len(buffer[SlotOf(t)]) = Capacity + 1
          /\ Len(pushed[SlotOf(t)]) = Capacity + 2

\* C16: shutdown is idempotent and one-way: in a state reached after
\* exit_method ran, running its assignment again leaves the flag as it is, and
\* no step of the program sets quit_flag back to False.
ShutdownIdempotentOneWay ==
    /\ [](quit_flag => QuitFlagAfterExit(quit_flag) = quit_flag)
    /\ [][quit_flag => quit_flag']_vars

\* C16 witness: exit_method has run and the cleanup has begun
W_QuitRequested == quit_flag /\ main_pc = "join" /\ join_k = 1

\* C17: in audiosensors.py no appended sample is lost other than by eviction
\* beyond buffer_width: in every state the buffer of a device is the run of
\* its pushes that ends with the newest one, and it is shorter than
\* buffer_width only when the device has pushed fewer samples than that.
NoSampleLostByTrim ==
    \A k \in 1..Len(buffer) :
        /\ Len(buffer[k]) <= Len(pushed[k])
        /\ IsRunAt(buffer[k], pushed[k], Len(pushed[k]) - Len(buffer[k]))
        /\ Len(buffer[k]) >= (IF Len(pushed[k]) < buffer_width
                                THEN Len(pushed[k]) ELSE buffer_width)

\* some thread of audiosensors.py has found the quit condition true
QuitActedOn ==
    \/ mt_pc \in {"join", "terminate", "done"}
    \/ \E t \in Workers : threads[t].pc = "stopped" /\ threads[t].stream = "closed"

\* C19: in audiosensors.py a quit request is latched: once a thread has acted
\* on the quit condition, and mainThread runs and no read blocks, every
\* capture worker stops, the joins return and mainThread finishes.
QuitIsLatched ==
    (/\ QuitActedOn
     /\ mt_pc # "idle"
     /\ \A t \in Workers : ReadsComplete(t))
        ~> (/\ \A t \in Workers : threads[t].pc = "stopped"
            /\ mt_pc = "done")

\* C18: the mean detect_faulty_sources reports for a device is the mean it
\* tested against the threshold: the step that prints the message records the
\* mean evaluated by the test, also when the worker pushes in between.
ReportedMeanIsTestedMean ==
    [][(agg_pc = "det_report" /\ agg_pc' = "det_test")
          => [dev |-> det_i, mean |-> det_mean] \in faulty']_vars

\* C20: after quit_flag has become True every capture worker of final.py
\* pushes at most one more sample.
AtMostOnePushAfterQuit ==
    quit_flag =>
        \A k \in 1..Len(pushed) :
            k <= Len(quit_mark) /\ Len(pushed[k]) <= quit_mark[k] + 1

\* C20 witness: a worker has pushed one sample after the quit, found the flag
\* set and stopped
W_OneMoreThenStopped ==
    /\ quit_flag
    /\ \E t \in Workers :
          /\ threads[t].pc = "stopped"
          /\ threads[t].stream = "closed"
          /\ Len(pushed[SlotOf(t)]) = quit_mark[SlotOf(t)] + 1

====
